---- MODULE Spec2Model ----
(***************************************************************************)
(* The in-memory data service of the to-do application                     *)
(* (src/src/app/Services/todo.service.ts, class TodoService): a list of    *)
(* records fetched once from a remote API and cached, with add, update,    *)
(* delete and lookup over the cached list.                                 *)
(*                                                                         *)
(* The program state is  todos  and  isInitialized  plus the outbound      *)
(* reads that are in flight.  The other variables are history variables:   *)
(* they record what the program did (calls made, values delivered); the    *)
(* actions read them only in the guards that bound the model (MaxReads,    *)
(* MaxAdds), never to decide an effect on the program state.               *)
(***************************************************************************)
EXTENDS Integers, Sequences, FiniteSets, TLC

VARIABLES
    todos,          \* TodoService.todos: the cached array
    isInitialized,  \* TodoService.isInitialized
    inflight,       \* outbound GETs issued and not yet answered
    reads,          \* history: outbound GETs issued so far
    installs,       \* history: GETs answered successfully so far (tap ran)
    assigned,       \* history: ids stamped by addTodo, oldest first
    live,           \* history: ids stamped by addTodo and not passed to deleteTodo since
    onlyAdds,       \* history: every call so far was addTodo
    last,           \* history: the latest call or completion, its input and output
    uninitCalls,    \* history: getTodos calls made while isInitialized was false
    pipe,           \* FilterPipe: the arguments of a transform call and its result
    route,          \* the component the router shows: "none", "list" or "form"
    listView,       \* TodoListComponent: todos, loading, errorMessage
    formView,       \* TodoFormComponent: todo, isEditMode, errorMessage, loading, todoId
    ui              \* history: the latest event of the views, its input and outcome

vars == <<todos, isInitialized, inflight, reads, installs, assigned, live, onlyAdds, last,
          uninitCalls, pipe, route, listView, formView, ui>>

----------------------------------------------------------------------------
(* Bounds of the model *)

\* outbound reads issued in one run
MaxReads == 2
\* addTodo calls in one run
MaxAdds == 2
\* length of the arrays passed to FilterPipe.transform
MaxItems == 3
\* outbound reads issued in one run of the application
MaxViewReads == 2
\* records added through the form in one run of the application
MaxViewAdds == 1

----------------------------------------------------------------------------
(* Records: ITodo { id?: number; title: string; completed: boolean;        *)
(* userId?: number }.  An absent optional field holds Undefined.           *)

Undefined == -1

Todo(i, t, c, u) == [id |-> i, title |-> t, completed |-> c, userId |-> u]

NoTodo == Todo(Undefined, "", FALSE, Undefined)

\* todos.slice(0, 20)
SliceLimit == 20

\* userId: 1 in addTodo
DefaultUserId == 1

Min(a, b) == IF a <= b THEN a ELSE b

MaxOf(S) == CHOOSE m \in S : \A x \in S : x <= m

\* Array.prototype.slice(from, to) for 0 <= from <= to
Slice(s, from, to) == SubSeq(s, from + 1, Min(to, Len(s)))

\* findIndex(t => t.id === id) and find(t => t.id === id): the first match,
\* 1-based; 0 stands for -1 (no match)
FindIndexById(s, id) ==
    IF \E i \in 1..Len(s) : s[i].id = id
    THEN CHOOSE i \in 1..Len(s) : s[i].id = id /\ \A j \in 1..(i - 1) : s[j].id # id
    ELSE 0

----------------------------------------------------------------------------
(* The remote API's answers and the callers' inputs *)

\* a short answer
RespShort == <<Todo(1, "Buy milk", FALSE, 1), Todo(2, "X", TRUE, 1)>>

\* a one-entry answer
RespOne == <<Todo(5, "X", FALSE, 2)>>

\* an answer longer than the slice limit
RespLong == [i \in 1..(SliceLimit + 2) |-> Todo(100 + i, "X", i % 2 = 0, 1)]

Responses == {<<>>, RespOne, RespShort, RespLong}

\* ids passed to getTodoById, updateTodo (in the record) and deleteTodo
ArgIds == {1, 2, 6, 100 + SliceLimit + 1}

\* drafts passed to addTodo: with or without an id and an owner of their own
Drafts == {Todo(Undefined, "Buy milk", FALSE, Undefined), Todo(1, "X", TRUE, 2)}

\* records passed to updateTodo
Updates == {Todo(i, "Updated", TRUE, 1) : i \in ArgIds \cup {Undefined}}

----------------------------------------------------------------------------
(* TodoService *)

\* t.id || 0
IdOrZero(t) == IF t.id = Undefined \/ t.id = 0 THEN 0 ELSE t.id

\* a variant of MaxId that takes the array's length for the largest id
MaxIdLength(ts) == Len(ts)

\* a variant of MaxId that takes the first record's id (the newest is first)
MaxIdFirst(ts) == IF Len(ts) > 0 THEN IdOrZero(ts[1]) ELSE 0

\* maxId = todos.length > 0 ? Math.max(...todos.map(t => t.id || 0)) : 0
MaxId(ts) == IF Len(ts) > 0 THEN MaxOf({IdOrZero(ts[i]) : i \in 1..Len(ts)}) ELSE 0

\* a variant of NewTodo that stamps maxId itself, not maxId + 1
NewTodoNoIncrement(ts, todo) == [todo EXCEPT !.id = MaxId(ts), !.userId = DefaultUserId]

\* { ...todo, id: maxId + 1, userId: 1 }
NewTodo(ts, todo) == [todo EXCEPT !.id = MaxId(ts) + 1, !.userId = DefaultUserId]

\* a variant of Unshift that appends (push) instead
Push(ts, t) == ts \o <<t>>

\* todos.unshift(newTodo)
Unshift(ts, t) == <<t>> \o ts

\* a variant of Fetched that keeps the whole answer
FetchedNoSlice(resp) == resp

\* map(todos => todos.slice(0, 20))
Fetched(resp) == Slice(resp, 0, SliceLimit)

\* a variant of Find that takes the id for an array index
FindAtIndex(ts, id) == IF id \in 1..Len(ts) THEN ts[id] ELSE NoTodo

\* todos.find(t => t.id === id)
Find(ts, id) ==
    LET i == FindIndexById(ts, id)
    IN  IF i = 0 THEN NoTodo ELSE ts[i]

\* a variant of Updated that moves the updated record to the front
UpdatedToFront(ts, todo) ==
    LET index == FindIndexById(ts, todo.id)
    IN  IF index # 0
        THEN <<todo>> \o SubSeq(ts, 1, index - 1) \o SubSeq(ts, index + 1, Len(ts))
        ELSE ts

\* a variant of Updated that inserts the record when no id matches
UpdatedUpsert(ts, todo) ==
    LET index == FindIndexById(ts, todo.id)
    IN  IF index # 0 THEN [ts EXCEPT ![index] = todo] ELSE <<todo>> \o ts

\* index = findIndex(t => t.id === todo.id); if (index !== -1) todos[index] = {...todo}
Updated(ts, todo) ==
    LET index == FindIndexById(ts, todo.id)
    IN  IF index # 0 THEN [ts EXCEPT ![index] = todo] ELSE ts

\* a variant of Deleted that splices at findIndex, removing the last record
\* when no id matches (splice(-1, 1))
DeletedSplice(ts, id) ==
    LET index == FindIndexById(ts, id)
    IN  IF index # 0
        THEN SubSeq(ts, 1, index - 1) \o SubSeq(ts, index + 1, Len(ts))
        ELSE SubSeq(ts, 1, Len(ts) - 1)

\* a variant of Deleted with the test inverted (=== for !==)
DeletedInverted(ts, id) == SelectSeq(ts, LAMBDA t : t.id = id)

\* todos.filter(t => t.id !== id)
Deleted(ts, id) == SelectSeq(ts, LAMBDA t : t.id # id)

----------------------------------------------------------------------------
(* FilterPipe.transform(items: ITodo[], field: string, value: any)          *)

\* JavaScript values with their type, as === compares them
Bool(b) == [t |-> "boolean", v |-> b]
Num(n) == [t |-> "number", v |-> n]
Str(s) == [t |-> "string", v |-> s]
Undef == [t |-> "undefined", v |-> 0]

\* x === y
StrictEquals(x, y) == x.t = y.t /\ x.v = y.v

\* item[field as keyof ITodo]
Prop(item, name) ==
    CASE name = "id" -> (IF item.id = Undefined THEN Undef ELSE Num(item.id))
      [] name = "title" -> Str(item.title)
      [] name = "completed" -> Bool(item.completed)
      [] name = "userId" -> (IF item.userId = Undefined THEN Undef ELSE Num(item.userId))
      [] OTHER -> Undef

\* an array argument, or an absent one (null / undefined)
Items(s) == [present |-> TRUE, elems |-> s]
NullItems == [present |-> FALSE, elems |-> <<>>]

\* a field-name argument, or an absent one
Field(n) == [present |-> TRUE, name |-> n]
NoField == [present |-> FALSE, name |-> ""]

\* a variant of Transform that keeps the first match only (find for filter)
TransformFirstMatch(items, field, value) ==
    IF ~items.present \/ ~field.present \/ field.name = ""
    THEN items
    ELSE LET all == SelectSeq(items.elems,
                              LAMBDA item : StrictEquals(Prop(item, field.name), value))
         IN  Items(IF all = <<>> THEN <<>> ELSE <<all[1]>>)

\* a variant of Transform that guards the array only
TransformItemsGuardOnly(items, field, value) ==
    IF ~items.present
    THEN items
    ELSE Items(SelectSeq(items.elems,
                         LAMBDA item : StrictEquals(Prop(item, field.name), value)))

\* if (!items || !field) return items;
\* return items.filter(item => item[field as keyof ITodo] === value)
Transform(items, field, value) ==
    IF ~items.present \/ ~field.present \/ field.name = ""
    THEN items
    ELSE Items(SelectSeq(items.elems,
                         LAMBDA item : StrictEquals(Prop(item, field.name), value)))

\* mockTodos of the pipe's tests, and a draft without id and owner
PipeTodos ==
    {Todo(1, "Todo 1", FALSE, 1), Todo(2, "Todo 2", TRUE, 1), Todo(3, "Todo 3", FALSE, 2),
     Todo(Undefined, "Todo 1", TRUE, Undefined)}

PipeItems ==
    {NullItems} \cup {Items(s) : s \in UNION {[1..n -> PipeTodos] : n \in 0..MaxItems}}

PipeFields ==
    {NoField, Field(""), Field("completed"), Field("userId"), Field("id"), Field("title")}

PipeValues == {Bool(TRUE), Bool(FALSE), Num(1), Num(2), Num(999), Str("Todo 1"), Undef}

\* no transform call; arg is history: the array as it was passed
NoPipe ==
    [items |-> NullItems, field |-> NoField, value |-> Undef, called |-> FALSE,
     result |-> NullItems, arg |-> NullItems]

----------------------------------------------------------------------------
(* The views: TodoListComponent and TodoFormComponent                      *)

\* String.prototype.trim, for the blank character
RECURSIVE TrimStart(_)
TrimStart(s) ==
    IF Len(s) > 0 /\ SubSeq(s, 1, 1) = " " THEN TrimStart(SubSeq(s, 2, Len(s))) ELSE s

RECURSIVE TrimEnd(_)
TrimEnd(s) ==
    IF Len(s) > 0 /\ SubSeq(s, Len(s), Len(s)) = " "
    THEN TrimEnd(SubSeq(s, 1, Len(s) - 1))
    ELSE s

Trim(s) == TrimEnd(TrimStart(s))

\* TodoListComponent's fields as constructed; pending: its getTodos call is
\* not answered yet; expectTop, failures and othersAtLoad are history (the
\* record the form added before this list was shown, the failed loads of this
\* list, and the reads of other subscribers that were in flight when this
\* list's last load succeeded, Undefined before that)
NoList ==
    [todos |-> <<>>, loading |-> FALSE, errorMessage |-> "", pending |-> FALSE,
     expectTop |-> NoTodo, failures |-> 0, othersAtLoad |-> Undefined]

\* TodoFormComponent's fields as constructed; routeId is
\* route.snapshot.params['id'], Undefined when the route has none
NoForm ==
    [todo |-> Todo(Undefined, "", FALSE, Undefined), isEditMode |-> FALSE,
     errorMessage |-> "", loading |-> FALSE, todoId |-> Undefined, routeId |-> Undefined]

\* no event of the views yet
NoEvent ==
    [ev |-> "none", id |-> Undefined, confirm |-> FALSE, todo |-> NoTodo, calls |-> <<>>,
     ret |-> FALSE, data |-> <<>>, fetch |-> "none", navigated |-> FALSE, pre |-> <<>>,
     preList |-> NoList]

----------------------------------------------------------------------------
(* TodoService: calls and completions *)

Call(op) ==
    [op |-> op, argId |-> Undefined, argTodo |-> NoTodo, resp |-> <<>>,
     out |-> "none", outTodos |-> <<>>, outTodo |-> NoTodo, outBool |-> FALSE,
     pre |-> todos, preInit |-> isInitialized, preReads |-> reads]

Init ==
    /\ todos = <<>>
    /\ isInitialized = FALSE
    /\ inflight = 0
    /\ reads = 0
    /\ installs = 0
    /\ assigned = <<>>
    /\ live = {}
    /\ onlyAdds = TRUE
    /\ last = [Call("new") EXCEPT !.pre = <<>>, !.preInit = FALSE, !.preReads = 0]
    /\ uninitCalls = 0
    /\ pipe = NoPipe
    /\ route = "none"
    /\ listView = NoList
    /\ formView = NoForm
    /\ ui = NoEvent

\* a variant of GetTodosCached that ignores the flag and reads again
GetTodosRefetch ==
    /\ isInitialized
    /\ reads < MaxReads
    /\ inflight' = inflight + 1
    /\ reads' = reads + 1
    /\ last' = [Call("getTodos") EXCEPT !.out = "pending"]
    /\ onlyAdds' = FALSE
    /\ UNCHANGED <<todos, isInitialized, installs, assigned, live, uninitCalls, pipe, route, listView, formView, ui>>

\* getTodos() on an initialized service: of(this.todos)
GetTodosCached ==
    /\ isInitialized
    /\ last' = [Call("getTodos") EXCEPT !.out = "todos", !.outTodos = todos]
    /\ onlyAdds' = FALSE
    /\ UNCHANGED <<todos, isInitialized, inflight, reads, installs, assigned, live, uninitCalls, pipe, route, listView, formView, ui>>

\* getTodos() on an uninitialized service: http.get(apiUrl) is issued
GetTodosFetch ==
    /\ ~isInitialized
    /\ reads < MaxReads
    /\ inflight' = inflight + 1
    /\ reads' = reads + 1
    /\ uninitCalls' = uninitCalls + 1
    /\ last' = [Call("getTodos") EXCEPT !.out = "pending"]
    /\ onlyAdds' = FALSE
    /\ UNCHANGED <<todos, isInitialized, installs, assigned, live, pipe, route, listView, formView, ui>>

\* a variant of FetchSucceeds whose tap stores the answer only while uninitialized
FetchSucceedsFirstWins ==
    /\ inflight > 0
    /\ \E resp \in Responses :
        /\ todos' = IF isInitialized THEN todos ELSE Fetched(resp)
        /\ last' = [Call("fetchOk") EXCEPT !.resp = resp, !.out = "todos",
                                           !.outTodos = Fetched(resp)]
    /\ isInitialized' = TRUE
    /\ inflight' = inflight - 1
    /\ installs' = installs + 1
    /\ onlyAdds' = FALSE
    /\ UNCHANGED <<reads, assigned, live, uninitCalls, pipe, route, listView, formView, ui>>

\* a variant of FetchSucceeds whose tap stores the answer and leaves the flag
FetchSucceedsNoFlag ==
    /\ inflight > 0
    /\ \E resp \in Responses :
        /\ todos' = Fetched(resp)
        /\ last' = [Call("fetchOk") EXCEPT !.resp = resp, !.out = "todos",
                                           !.outTodos = Fetched(resp)]
    /\ inflight' = inflight - 1
    /\ installs' = installs + 1
    /\ onlyAdds' = FALSE
    /\ UNCHANGED <<isInitialized, reads, assigned, live, uninitCalls, pipe, route, listView, formView, ui>>

\* an outbound read is answered: map(slice), then tap(store and set the flag)
FetchSucceeds ==
    /\ inflight > 0
    /\ \E resp \in Responses :
        /\ todos' = Fetched(resp)
        /\ last' = [Call("fetchOk") EXCEPT !.resp = resp, !.out = "todos",
                                           !.outTodos = Fetched(resp)]
    /\ isInitialized' = TRUE
    /\ inflight' = inflight - 1
    /\ installs' = installs + 1
    /\ onlyAdds' = FALSE
    /\ UNCHANGED <<reads, assigned, live, uninitCalls, pipe, route, listView, formView, ui>>

\* a variant of FetchFails that issues the read again by itself
FetchFailsRetry ==
    /\ inflight > 0
    /\ IF reads < MaxReads
       THEN reads' = reads + 1 /\ inflight' = inflight
       ELSE reads' = reads /\ inflight' = inflight - 1
    /\ last' = [Call("fetchFail") EXCEPT !.out = "error"]
    /\ onlyAdds' = FALSE
    /\ UNCHANGED <<todos, isInitialized, installs, assigned, live, uninitCalls, pipe, route, listView, formView, ui>>

\* a variant of FetchFails that resets the flag
FetchFailsResetsFlag ==
    /\ inflight > 0
    /\ inflight' = inflight - 1
    /\ isInitialized' = FALSE
    /\ last' = [Call("fetchFail") EXCEPT !.out = "error"]
    /\ onlyAdds' = FALSE
    /\ UNCHANGED <<todos, reads, installs, assigned, live, uninitCalls, pipe, route, listView, formView, ui>>

\* an outbound read fails: the error passes through map and tap to the subscriber
FetchFails ==
    /\ inflight > 0
    /\ inflight' = inflight - 1
    /\ last' = [Call("fetchFail") EXCEPT !.out = "error"]
    /\ onlyAdds' = FALSE
    /\ UNCHANGED <<todos, isInitialized, reads, installs, assigned, live, uninitCalls, pipe, route, listView, formView, ui>>

\* a variant of GetTodoById that loads the records when none were loaded yet
GetTodoByIdFetching ==
    /\ \E id \in ArgIds :
        last' = [Call("getTodoById") EXCEPT
                    !.argId = id,
                    !.out = IF Find(todos, id) = NoTodo THEN "undefined" ELSE "todo",
                    !.outTodo = Find(todos, id)]
    /\ IF ~isInitialized /\ reads < MaxReads
       THEN reads' = reads + 1 /\ inflight' = inflight + 1
       ELSE UNCHANGED <<reads, inflight>>
    /\ onlyAdds' = FALSE
    /\ UNCHANGED <<todos, isInitialized, installs, assigned, live, uninitCalls, pipe, route, listView, formView, ui>>

\* getTodoById(id): of(this.todos.find(...))
GetTodoById ==
    /\ \E id \in ArgIds :
        last' = [Call("getTodoById") EXCEPT
                    !.argId = id,
                    !.out = IF Find(todos, id) = NoTodo THEN "undefined" ELSE "todo",
                    !.outTodo = Find(todos, id)]
    /\ onlyAdds' = FALSE
    /\ UNCHANGED <<todos, isInitialized, inflight, reads, installs, assigned, live, uninitCalls, pipe, route, listView, formView, ui>>

AddTodo ==
    /\ Len(assigned) < MaxAdds
    /\ \E todo \in Drafts :
        LET newTodo == NewTodo(todos, todo)
        IN  /\ todos' = Unshift(todos, newTodo)
            /\ assigned' = Append(assigned, newTodo.id)
            /\ live' = live \cup {newTodo.id}
            /\ last' = [Call("addTodo") EXCEPT !.argTodo = todo, !.out = "todo",
                                               !.outTodo = newTodo]
    /\ UNCHANGED <<isInitialized, inflight, reads, installs, onlyAdds, uninitCalls, pipe, route, listView, formView, ui>>

UpdateTodo ==
    /\ \E todo \in Updates :
        /\ todos' = Updated(todos, todo)
        /\ last' = [Call("updateTodo") EXCEPT !.argTodo = todo, !.out = "todo",
                                                  !.outTodo = todo]
    /\ onlyAdds' = FALSE
    /\ UNCHANGED <<isInitialized, inflight, reads, installs, assigned, live, uninitCalls, pipe, route, listView, formView, ui>>

DeleteTodo ==
    /\ \E id \in ArgIds :
        /\ todos' = Deleted(todos, id)
        /\ live' = live \ {id}
        /\ last' = [Call("deleteTodo") EXCEPT
                       !.argId = id, !.out = "bool",
                       !.outBool = (Len(Deleted(todos, id)) < Len(todos))]
    /\ onlyAdds' = FALSE
    /\ UNCHANGED <<isInitialized, inflight, reads, installs, assigned, uninitCalls, pipe, route, listView, formView, ui>>

Next ==
    \/ GetTodosCached
    \/ GetTodosFetch
    \/ FetchSucceeds
    \/ FetchFails
    \/ GetTodoById
    \/ AddTodo
    \/ UpdateTodo
    \/ DeleteTodo

Spec == Init /\ [][Next]_vars

----------------------------------------------------------------------------
(* FilterPipe on its own: the arguments are drawn at the start, the one     *)
(* action applies transform to them.                                       *)

InitPipe ==
    /\ todos = <<>>
    /\ isInitialized = FALSE
    /\ inflight = 0
    /\ reads = 0
    /\ installs = 0
    /\ assigned = <<>>
    /\ live = {}
    /\ onlyAdds = TRUE
    /\ last = [Call("new") EXCEPT !.pre = <<>>, !.preInit = FALSE, !.preReads = 0]
    /\ route = "none"
    /\ listView = NoList
    /\ formView = NoForm
    /\ ui = NoEvent
    /\ uninitCalls = 0
    /\ pipe \in {[NoPipe EXCEPT !.items = i, !.arg = i, !.field = f, !.value = v] :
                    i \in PipeItems, f \in PipeFields, v \in PipeValues}

TransformCall ==
    /\ ~pipe.called
    /\ pipe' = [pipe EXCEPT !.called = TRUE,
                            !.result = Transform(pipe.items, pipe.field, pipe.value)]
    /\ UNCHANGED <<todos, isInitialized, inflight, reads, installs, assigned, live,
                   onlyAdds, last, uninitCalls, route, listView, formView, ui>>

NextPipe == TransformCall

SpecPipe == InitPipe /\ [][NextPipe]_vars

----------------------------------------------------------------------------
(* The application: the router shows TodoListComponent or                  *)
(* TodoFormComponent, both working on the one TodoService.  A run starts   *)
(* with a page load at '/', '/add' or '/edit/:id'.  router.navigate and    *)
(* the mounting of the next component (its ngOnInit) are one step.  A      *)
(* list component that is replaced while its getTodos call is unanswered   *)
(* leaves that read in flight: its answer still runs the service's tap.    *)
(* Of the history variables of TodoService only reads and assigned are     *)
(* kept here, for the bounds.                                              *)

\* the answers of the remote API in the runs of the application
ViewResponses == {<<>>, RespOne, RespShort}

\* the ids of the '/edit/:id' routes a page load starts at
LandingIds == {1}

\* the id arguments of the list's deleteTodo(id, title): the rows shown
ListDeleteIds(v) == {v.todos[i].id : i \in 1..Len(v.todos)}

\* what the user types into the form: title and completed
FormInputs ==
    {[title |-> "", completed |-> FALSE], [title |-> "  ", completed |-> TRUE],
     [title |-> " ab ", completed |-> FALSE], [title |-> "Milk", completed |-> TRUE]}

\* a variant of ListFetchStart that keeps the error message
ListFetchStartKeepsError(v) == [v EXCEPT !.loading = TRUE]

\* fetchTodos: this.loading = true; this.errorMessage = ''
ListFetchStart(v) == [v EXCEPT !.loading = TRUE, !.errorMessage = ""]

\* a variant of ListOnNext that leaves the list as it was
ListOnNextKeepsList(v, data) == [v EXCEPT !.loading = FALSE]

\* fetchTodos, next: this.todos = data; this.loading = false
ListOnNext(v, data) == [v EXCEPT !.todos = data, !.loading = FALSE]

\* fetchTodos, error: this.loading = false; this.errorMessage = '...'
ListOnError(v) ==
    [v EXCEPT !.loading = FALSE,
              !.errorMessage = "Failed to load todos. Please try again."]

\* a variant of ListDeleteStart that keeps the error message
ListDeleteStartKeepsError(v) == v

\* deleteTodo, behind confirm(): this.errorMessage = ''
ListDeleteStart(v) == [v EXCEPT !.errorMessage = ""]

\* a variant of ListOnDeleted that drops the first row shown
ListOnDeletedDropsFirst(v, id, success) ==
    IF success
    THEN [v EXCEPT !.todos = IF @ = <<>> THEN <<>> ELSE Tail(@)]
    ELSE [v EXCEPT !.errorMessage = "Failed to delete todo. Todo not found."]

\* deleteTodo, next: success ? this.todos = this.todos.filter(todo => todo.id !== id)
\*                           : this.errorMessage = '...'
ListOnDeleted(v, id, success) ==
    IF success
    THEN [v EXCEPT !.todos = SelectSeq(@, LAMBDA todo : todo.id # id)]
    ELSE [v EXCEPT !.errorMessage = "Failed to delete todo. Todo not found."]

\* fetchTodos with getTodos answering at once (of(this.todos)) or not yet
ListAfterFetchCall(v, ts) ==
    IF isInitialized
    THEN [ListOnNext(ListFetchStart(v), ts) EXCEPT !.othersAtLoad = inflight]
    ELSE [ListFetchStart(v) EXCEPT !.pending = TRUE]

\* a variant of FormOnLoaded without the branch for a record not found
FormOnLoadedNoElse(v, id, todo) ==
    IF todo # NoTodo
    THEN [v EXCEPT !.todo = todo, !.loading = FALSE]
    ELSE v

\* loadTodo, next: todo ? (this.todo = {...todo}) : (this.errorMessage = `...`);
\* this.loading = false in both branches
FormOnLoaded(v, id, todo) ==
    IF todo # NoTodo
    THEN [v EXCEPT !.todo = todo, !.loading = FALSE]
    ELSE [v EXCEPT !.errorMessage = "Todo with ID " \o ToString(id) \o " not found.",
                   !.loading = FALSE]

\* ngOnInit: if (id) { isEditMode = true; todoId = +id; loadTodo(todoId) }, with
\* loadTodo: loading = true; errorMessage = ''; getTodoById(id) answers at once
FormInit(routeId, ts) ==
    IF routeId # Undefined
    THEN FormOnLoaded([NoForm EXCEPT !.routeId = routeId, !.isEditMode = TRUE,
                                     !.todoId = routeId, !.loading = TRUE,
                                     !.errorMessage = ""],
                      routeId, Find(ts, routeId))
    ELSE NoForm

\* a variant of SubmitError that measures the title untrimmed
SubmitErrorNoTrim(title) ==
    IF title = ""
    THEN "Title is required and cannot be empty."
    ELSE IF Len(title) < 3
         THEN "Title must be at least 3 characters long."
         ELSE ""

\* a variant of SubmitError without the minimum length
SubmitErrorRequiredOnly(title) ==
    IF title = "" \/ Trim(title) = ""
    THEN "Title is required and cannot be empty."
    ELSE ""

\* submit: if (!this.todo.title || !this.todo.title.trim()) ...;
\* if (this.todo.title.trim().length < 3) ...
SubmitError(title) ==
    IF title = "" \/ Trim(title) = ""
    THEN "Title is required and cannot be empty."
    ELSE IF Len(Trim(title)) < 3
         THEN "Title must be at least 3 characters long."
         ELSE ""

\* a variant of SubmitCall that adds in both modes
SubmitCallAlwaysAdd(v) == "addTodo"

\* submit: if (this.isEditMode) this.updateTodo(); else this.addTodo()
SubmitCall(v) == IF v.isEditMode THEN "updateTodo" ELSE "addTodo"

Event(ev) == [NoEvent EXCEPT !.ev = ev]

\* the router shows a new TodoListComponent; ngOnInit calls fetchTodos
MountList(ts, expect) ==
    /\ isInitialized \/ reads < MaxViewReads
    /\ route' = "list"
    /\ formView' = NoForm
    /\ listView' = ListAfterFetchCall([NoList EXCEPT !.expectTop = expect], ts)
    /\ IF isInitialized
       THEN UNCHANGED <<inflight, reads>>
       ELSE inflight' = inflight + 1 /\ reads' = reads + 1

\* the router shows a new TodoFormComponent
MountForm(routeId) ==
    /\ route' = "form"
    /\ listView' = NoList
    /\ formView' = FormInit(routeId, todos)
    /\ ui' = [Event("openForm") EXCEPT
                 !.id = routeId,
                 !.calls = IF FormInit(routeId, todos).isEditMode
                           THEN <<"getTodoById">> ELSE <<>>]
    /\ UNCHANGED <<todos, isInitialized, inflight, reads, installs, assigned, live,
                   onlyAdds, last, uninitCalls, pipe>>

FetchKind == IF isInitialized THEN "sync" ELSE "pending"

InitViews ==
    /\ todos = <<>>
    /\ isInitialized = FALSE
    /\ inflight = 0
    /\ reads = 0
    /\ installs = 0
    /\ assigned = <<>>
    /\ live = {}
    /\ onlyAdds = TRUE
    /\ last = [Call("new") EXCEPT !.pre = <<>>, !.preInit = FALSE, !.preReads = 0]
    /\ uninitCalls = 0
    /\ pipe = NoPipe
    /\ route = "none"
    /\ listView = NoList
    /\ formView = NoForm
    /\ ui = NoEvent

\* page load at '/'
OpenList ==
    /\ route = "none"
    /\ MountList(todos, NoTodo)
    /\ ui' = [Event("openList") EXCEPT !.fetch = FetchKind, !.navigated = TRUE]
    /\ UNCHANGED <<todos, isInitialized, installs, assigned, live, onlyAdds, last,
                   uninitCalls, pipe>>

\* page load at '/add', or the list's link to '/add'
OpenAdd ==
    /\ route \in {"none", "list"}
    /\ MountForm(Undefined)

\* page load at '/edit/:id', or the link to '/edit/:id' of a row of the list
OpenEdit ==
    /\ route \in {"none", "list"}
    /\ \E id \in (IF route = "none" THEN LandingIds
                  ELSE {listView.todos[i].id : i \in 1..Len(listView.todos)}) :
          MountForm(id)

\* the user fills in the form (title and completed are bound to this.todo)
EditDraft ==
    /\ route = "form"
    /\ \E inp \in FormInputs :
          formView' = [formView EXCEPT !.todo.title = inp.title,
                                       !.todo.completed = inp.completed]
    /\ ui' = [NoEvent EXCEPT !.ev = "editDraft"]
    /\ UNCHANGED <<todos, isInitialized, inflight, reads, installs, assigned, live,
                   onlyAdds, last, uninitCalls, pipe, route, listView>>

\* submit() with a title that fails the validation
SubmitInvalid ==
    /\ route = "form"
    /\ SubmitError(formView.todo.title) # ""
    /\ formView' = [formView EXCEPT !.errorMessage = SubmitError(formView.todo.title)]
    /\ ui' = [Event("submit") EXCEPT !.id = formView.routeId, !.todo = formView.todo,
                                     !.pre = todos]
    /\ UNCHANGED <<todos, isInitialized, inflight, reads, installs, assigned, live,
                   onlyAdds, last, uninitCalls, pipe, route, listView>>

\* submit() with a title that passes: addTodo() or updateTodo() calls the
\* service, whose answer comes at once, and the view navigates to '/'
SubmitValid ==
    /\ route = "form"
    /\ SubmitError(formView.todo.title) = ""
    /\ LET call == SubmitCall(formView)
           arg == formView.todo
           newTodo == NewTodo(todos, arg)
           ts == IF call = "addTodo" THEN Unshift(todos, newTodo) ELSE Updated(todos, arg)
       IN  /\ call = "addTodo" => Len(assigned) < MaxViewAdds
           /\ todos' = ts
           /\ assigned' = IF call = "addTodo" THEN Append(assigned, newTodo.id)
                          ELSE assigned
           /\ MountList(ts, IF call = "addTodo" THEN newTodo ELSE NoTodo)
           /\ ui' = [Event("submit") EXCEPT !.id = formView.routeId, !.todo = arg,
                                            !.calls = <<call>>, !.pre = todos,
                                            !.fetch = FetchKind, !.navigated = TRUE]
    /\ UNCHANGED <<isInitialized, installs, live, onlyAdds, last, uninitCalls, pipe>>

\* cancel(): router.navigate(['/'])
Cancel ==
    /\ route = "form"
    /\ MountList(todos, NoTodo)
    /\ ui' = [Event("cancel") EXCEPT !.fetch = FetchKind, !.navigated = TRUE]
    /\ UNCHANGED <<todos, isInitialized, installs, assigned, live, onlyAdds, last,
                   uninitCalls, pipe>>

\* fetchTodos() called again on the list shown, once its last call was answered
FetchTodosAgain ==
    /\ route = "list"
    /\ ~listView.loading
    /\ isInitialized \/ reads < MaxViewReads
    /\ listView' = ListAfterFetchCall(listView, todos)
    /\ IF isInitialized
       THEN UNCHANGED <<inflight, reads>>
       ELSE inflight' = inflight + 1 /\ reads' = reads + 1
    /\ ui' = [Event("fetchTodos") EXCEPT !.fetch = FetchKind]
    /\ UNCHANGED <<todos, isInitialized, installs, assigned, live, onlyAdds, last,
                   uninitCalls, pipe, route, formView>>

\* the read of the list shown is answered: the service's map and tap, then the
\* list's next handler
OwnFetchSucceeds ==
    /\ route = "list"
    /\ listView.pending
    /\ \E resp \in ViewResponses :
        /\ todos' = Fetched(resp)
        /\ listView' = [ListOnNext(listView, Fetched(resp)) EXCEPT
                            !.pending = FALSE, !.othersAtLoad = inflight - 1]
        /\ ui' = [Event("listLoaded") EXCEPT !.data = Fetched(resp)]
    /\ isInitialized' = TRUE
    /\ inflight' = inflight - 1
    /\ UNCHANGED <<reads, installs, assigned, live, onlyAdds, last, uninitCalls, pipe,
                   route, formView>>

\* the read of the list shown fails: the list's error handler
OwnFetchFails ==
    /\ route = "list"
    /\ listView.pending
    /\ listView' = [ListOnError(listView) EXCEPT !.pending = FALSE, !.failures = @ + 1]
    /\ inflight' = inflight - 1
    /\ ui' = [Event("listFailed") EXCEPT !.preList = listView]
    /\ UNCHANGED <<todos, isInitialized, reads, installs, assigned, live, onlyAdds, last,
                   uninitCalls, pipe, route, formView>>

\* a read issued for a list that is no longer shown is answered: the service's
\* tap runs, no view shown is told
StaleFetchSucceeds ==
    /\ inflight > (IF listView.pending THEN 1 ELSE 0)
    /\ \E resp \in ViewResponses : todos' = Fetched(resp)
    /\ isInitialized' = TRUE
    /\ inflight' = inflight - 1
    /\ ui' = Event("staleLoaded")
    /\ UNCHANGED <<reads, installs, assigned, live, onlyAdds, last, uninitCalls, pipe,
                   route, listView, formView>>

StaleFetchFails ==
    /\ inflight > (IF listView.pending THEN 1 ELSE 0)
    /\ inflight' = inflight - 1
    /\ ui' = Event("staleFailed")
    /\ UNCHANGED <<todos, isInitialized, reads, installs, assigned, live, onlyAdds, last,
                   uninitCalls, pipe, route, listView, formView>>

\* deleteTodo(id, title) of a row of the list, the user declining the confirm()
DeleteDeclined ==
    /\ route = "list"
    /\ \E id \in ListDeleteIds(listView) :
          ui' = [Event("delete") EXCEPT !.id = id, !.confirm = FALSE, !.pre = todos,
                                        !.preList = listView]
    /\ UNCHANGED <<todos, isInitialized, inflight, reads, installs, assigned, live,
                   onlyAdds, last, uninitCalls, pipe, route, listView, formView>>

\* deleteTodo(id, title) of a row of the list, the user confirming
DeleteConfirmed ==
    /\ route = "list"
    /\ \E id \in ListDeleteIds(listView) :
          LET success == Len(Deleted(todos, id)) < Len(todos)
          IN  /\ todos' = Deleted(todos, id)
              /\ listView' = ListOnDeleted(ListDeleteStart(listView), id, success)
              /\ ui' = [Event("delete") EXCEPT !.id = id, !.confirm = TRUE,
                                               !.calls = <<"deleteTodo">>, !.ret = success,
                                               !.pre = todos, !.preList = listView]
    /\ UNCHANGED <<isInitialized, inflight, reads, installs, assigned, live, onlyAdds,
                   last, uninitCalls, pipe, route, formView>>

NextViews ==
    \/ OpenList
    \/ OpenAdd
    \/ OpenEdit
    \/ EditDraft
    \/ SubmitInvalid
    \/ SubmitValid
    \/ Cancel
    \/ FetchTodosAgain
    \/ OwnFetchSucceeds
    \/ OwnFetchFails
    \/ StaleFetchSucceeds
    \/ StaleFetchFails
    \/ DeleteDeclined
    \/ DeleteConfirmed

SpecViews == InitViews /\ [][NextViews]_vars

----------------------------------------------------------------------------
(* Properties of TodoService *)

Ids(ts) == {ts[i].id : i \in 1..Len(ts)}

\* the first Min(Len(resp), 20) entries of resp, in order
IsFirst20(ts, resp) ==
    /\ Len(ts) = (IF Len(resp) <= 20 THEN Len(resp) ELSE 20)
    /\ \A i \in 1..Len(ts) : ts[i] = resp[i]

\* C1: when getTodos was called on an uninitialized service and its read is
\* answered with n entries, the cache is then the first min(n, 20) entries of
\* the answer in order, the flag is true, and the subscriber receives that
\* same sequence.
C1_FetchStoresFirst20 ==
    (last.op = "fetchOk" /\ ~last.preInit) =>
        /\ IsFirst20(todos, last.resp)
        /\ isInitialized
        /\ last.out = "todos"
        /\ last.outTodos = todos

C1_Witness ==
    /\ last.op = "fetchOk"
    /\ ~last.preInit
    /\ Len(last.resp) = 22
    /\ Len(todos) = 20
    /\ todos[20].id = 120

\* C2: once a read has been answered successfully, every later getTodos call
\* issues no read and returns the current cache, mutations made in between
\* included.
C2_CachedAfterFirstLoad ==
    (last.op = "getTodos" /\ installs >= 1) =>
        /\ reads = last.preReads
        /\ last.out = "todos"
        /\ last.outTodos = todos
        /\ todos = last.pre

C2_Witness ==
    /\ last.op = "getTodos"
    /\ installs = 1
    /\ reads = 1
    /\ Len(assigned) >= 1
    /\ \E i \in 1..Len(last.outTodos) : last.outTodos[i].id = assigned[1]

\* C3: at most one outbound read is ever answered successfully and stored.
C3_AtMostOneInstall == installs <= 1

\* C4: when a read fails the subscriber receives the error, the cache is as
\* before, and the flag is false (so that the next getTodos reads again).
C4_FailureLeavesUninitialized ==
    last.op = "fetchFail" =>
        /\ last.out = "error"
        /\ todos = last.pre
        /\ ~isInitialized

C6_AddedStaysUntilDeleted == \A id \in live : id \in Ids(todos)

\* C7: no two records of the cache have the same id (the remote answers carry
\* pairwise distinct ids).
C7_UniqueIds == \A i, j \in 1..Len(todos) : todos[i].id = todos[j].id => i = j

C7_Witness ==
    /\ installs >= 1
    /\ Len(assigned) = 2
    /\ last.op = "updateTodo"
    /\ last.pre # todos
    /\ Len(todos) >= 3

\* C8: addTodo stamps the id max + 1, max being the largest id in the cache
\* before the call and 0 for an empty cache, whatever id the draft carries.
C8_AddAssignsMaxPlusOne ==
    last.op = "addTodo" =>
        /\ last.pre = <<>> => last.outTodo.id = 1
        /\ last.pre # <<>> =>
            /\ last.outTodo.id - 1 \in Ids(last.pre)
            /\ \A x \in Ids(last.pre) : x <= last.outTodo.id - 1
        /\ Ids(last.pre) = {5} => last.outTodo.id = 6

C8_Witness ==
    /\ last.op = "addTodo"
    /\ Ids(last.pre) = {5}
    /\ last.argTodo.id = 1
    /\ last.outTodo.id = 6

\* C9: addTodo puts the new record at index 0, lengthens the cache by one,
\* keeps the earlier records and their order, returns the draft's title and
\* completed with the stamped id and owner 1, and leaves the flag alone.
C9_AddFrame ==
    last.op = "addTodo" =>
        /\ Len(todos) = Len(last.pre) + 1
        /\ todos[1] = last.outTodo
        /\ \A i \in 1..Len(last.pre) : todos[i + 1] = last.pre[i]
        /\ last.out = "todo"
        /\ last.outTodo.title = last.argTodo.title
        /\ last.outTodo.completed = last.argTodo.completed
        /\ last.outTodo.userId = 1
        /\ last.outTodo.id \notin Ids(last.pre) \cup {Undefined}
        /\ isInitialized = last.preInit

C9_Witness ==
    /\ last.op = "addTodo"
    /\ Len(last.pre) >= 2
    /\ last.argTodo.userId = 2
    /\ last.outTodo.userId = 1
    /\ last.preInit

\* C10: in a run of addTodo calls alone on a new service, every stamped id is
\* greater than all ids stamped before it, so the ids are pairwise distinct.
C10_AddOnlyIdsIncrease ==
    onlyAdds =>
        \A i, j \in 1..Len(assigned) : i < j => assigned[i] < assigned[j]

C10_Witness ==
    /\ onlyAdds
    /\ Len(assigned) >= 2
    /\ Len(todos) = Len(assigned)

\* the indices of ts whose record has the id
Hits(ts, id) == {i \in 1..Len(ts) : ts[i].id = id}

\* C11 as claimed: addTodo never stamps an id that an earlier addTodo stamped,
\* even when the record holding it has been deleted since.  Stated for the
\* runs in which getTodos was never called, so that no answer of the remote
\* API has replaced the cache: the claim covers them ("with or without
\* fetches") and fails there already.
C11_AddNeverReusesId ==
    reads = 0 =>
        \A i, j \in 1..Len(assigned) : assigned[i] = assigned[j] => i = j

\* C11 as amended: addTodo stamps an id greater than every id in the cache at
\* the call, so never one that a record still held carries, whether fetched or
\* stamped by an earlier addTodo.
C11_AddIdFreshAmongHeld ==
    last.op = "addTodo" =>
        /\ \A x \in Ids(last.pre) : x < last.outTodo.id
        /\ \A k \in 1..(Len(assigned) - 1) :
              assigned[k] \in Ids(last.pre) => assigned[k] # assigned[Len(assigned)]

C11_Witness ==
    /\ last.op = "addTodo"
    /\ Len(assigned) = 2
    /\ assigned[1] = assigned[2]
    /\ last.pre # <<>>

C13_DeleteAlwaysTrue == last.op = "deleteTodo" => last.outBool

\* C14: updateTodo with an id that a cached record carries replaces that
\* record, at its index, by the argument; the length, the ids in order, the
\* other records and the flag are unchanged, and the argument is returned.
C14_UpdateReplacesInPlace ==
    (last.op = "updateTodo" /\ Hits(last.pre, last.argTodo.id) # {}) =>
        /\ Len(todos) = Len(last.pre)
        /\ \A i \in 1..Len(todos) : todos[i].id = last.pre[i].id
        /\ \A i \in 1..Len(todos) :
              todos[i] = IF last.pre[i].id = last.argTodo.id THEN last.argTodo ELSE last.pre[i]
        /\ isInitialized = last.preInit
        /\ last.out = "todo"
        /\ last.outTodo = last.argTodo

C14_Witness ==
    /\ last.op = "updateTodo"
    /\ Len(last.pre) = 3
    /\ last.pre[2].id = last.argTodo.id
    /\ last.pre[2] # last.argTodo
    /\ todos[2] = last.argTodo

\* C15: updateTodo with an id that no cached record carries leaves the cache
\* and the flag unchanged, raises no error and returns the argument intact.
C15_UpdateUnmatchedNoOp ==
    (last.op = "updateTodo" /\ Hits(last.pre, last.argTodo.id) = {}) =>
        /\ todos = last.pre
        /\ isInitialized = last.preInit
        /\ last.out = "todo"
        /\ last.outTodo = last.argTodo

C15_Witness ==
    /\ last.op = "updateTodo"
    /\ last.pre = <<>>
    /\ ~last.preInit
    /\ reads = 0
    /\ last.argTodo = Todo(1, "Updated", TRUE, 1)
    /\ last.outTodo.title = "Updated"

\* C16: getTodoById(id) returns the cached record with that id when there is
\* one and undefined otherwise; it issues no read and changes neither the
\* cache nor the flag.
C16_GetByIdFinds ==
    last.op = "getTodoById" =>
        LET hit == Hits(last.pre, last.argId)
        IN  /\ hit = {} => last.out = "undefined"
            /\ hit # {} => (last.out = "todo" /\ \E i \in hit : last.outTodo = last.pre[i])
            /\ reads = last.preReads
            /\ todos = last.pre
            /\ isInitialized = last.preInit

C16_Witness ==
    /\ last.op = "getTodoById"
    /\ last.out = "todo"
    /\ last.argId = 6
    /\ Len(todos) = 2
    /\ todos[1].id = 6

\* C17 as claimed: while the flag is false the cache is empty and getTodoById
\* finds nothing.
C17_UninitializedIsEmpty ==
    ~isInitialized =>
        (todos = <<>> /\ \A id \in ArgIds : Find(todos, id) = NoTodo)

\* C17 as amended: while the flag is false the cache holds only records that
\* addTodo put there (none when addTodo was not called), and getTodoById
\* finds nothing for an id that addTodo did not stamp.
C17_UninitializedHoldsOnlyAdded ==
    ~isInitialized =>
        LET stamped == {assigned[k] : k \in 1..Len(assigned)}
        IN  /\ Ids(todos) \subseteq stamped
            /\ assigned = <<>> => todos = <<>>
            /\ \A id \in ArgIds \ stamped : Find(todos, id) = NoTodo

C17_Witness ==
    /\ ~isInitialized
    /\ reads = 2
    /\ inflight = 1
    /\ Len(todos) = 1
    /\ last.op = "getTodoById"
    /\ last.out = "undefined"

\* C18: getTodoById, addTodo, updateTodo and deleteTodo never end in an error
\* and never issue a read, whatever the state: uninitialized, after a failed
\* read, or with a read in flight.
C18_LocalOpsNeverFailOrRead ==
    last.op \in {"getTodoById", "addTodo", "updateTodo", "deleteTodo"} =>
        /\ last.out \in {"todo", "undefined", "bool"}
        /\ reads = last.preReads

C18_Witness ==
    /\ last.op \in {"getTodoById", "addTodo", "updateTodo", "deleteTodo"}
    /\ ~last.preInit
    /\ reads = 2
    /\ inflight = 1
    /\ installs = 0

\* C19: the service never reads again by itself: the reads issued so far are
\* as many as the getTodos calls made while the flag was false, and only such
\* a call adds a read, a failed read none.
C19_NoRetryByTheStore ==
    /\ reads = uninitCalls
    /\ reads # last.preReads =>
          (last.op = "getTodos" /\ ~last.preInit /\ reads = last.preReads + 1)
    /\ last.op = "fetchFail" => reads = last.preReads

C19_Witness ==
    /\ last.op = "getTodos"
    /\ reads = 2
    /\ uninitCalls = 2
    /\ inflight = 1
    /\ installs = 0

\* C20: transform(items, field, value) with an array and a non-empty field
\* name returns the elements whose field === value, in their order and with
\* their multiplicity; over completed = false, true, false it returns one
\* element for true and two for false.
C20_TransformKeepsMatches ==
    (pipe.called /\ pipe.items.present /\ pipe.field.present /\ pipe.field.name # "") =>
        LET arr == pipe.items.elems
            res == pipe.result.elems
            match == {i \in 1..Len(arr) :
                        StrictEquals(Prop(arr[i], pipe.field.name), pipe.value)}
        IN  /\ pipe.result.present
            /\ Len(res) = Cardinality(match)
            /\ \A i \in match : res[Cardinality({j \in match : j <= i})] = arr[i]
            /\ (/\ pipe.field.name = "completed"
                /\ [i \in 1..Len(arr) |-> arr[i].completed] = <<FALSE, TRUE, FALSE>>) =>
                    /\ StrictEquals(pipe.value, Bool(TRUE)) => Len(res) = 1
                    /\ StrictEquals(pipe.value, Bool(FALSE)) => Len(res) = 2

C20_Witness ==
    /\ pipe.called
    /\ pipe.items = Items(<<Todo(1, "Todo 1", FALSE, 1), Todo(2, "Todo 2", TRUE, 1),
                            Todo(3, "Todo 3", FALSE, 2)>>)
    /\ pipe.field = Field("completed")
    /\ pipe.value = Bool(FALSE)
    /\ Len(pipe.result.elems) = 2

\* C21: transform returns its input unchanged (same elements, same order)
\* whenever the array is absent or empty or the field name is absent or
\* empty, for every target value.
C21_TransformReturnsInputWhenAbsent ==
    (/\ pipe.called
     /\ \/ ~pipe.items.present
        \/ pipe.items.elems = <<>>
        \/ ~pipe.field.present
        \/ pipe.field.name = "") =>
        /\ pipe.result.present = pipe.items.present
        /\ pipe.result.elems = pipe.items.elems

C21_Witness ==
    /\ pipe.called
    /\ Len(pipe.items.elems) = 2
    /\ pipe.items.elems[1] # pipe.items.elems[2]
    /\ ~pipe.field.present
    /\ pipe.value = Bool(TRUE)
    /\ pipe.result = pipe.items

\* C22: when a submit in create mode has passed validation, called addTodo
\* and navigated, the list that mounts shows the added record at index 0 once
\* it has loaded, whatever state the service was in.
C22_AddedRecordTopOfList ==
    (/\ route = "list"
     /\ listView.expectTop # NoTodo
     /\ listView.failures = 0
     /\ \/ ui.ev = "submit" /\ ui.fetch = "sync"
        \/ ui.ev = "listLoaded") =>
        /\ Len(listView.todos) > 0
        /\ listView.todos[1] = listView.expectTop

\* C23: fetchTodos sets loading and clears the error message; when its
\* getTodos call is answered loading is false: on success the list is the
\* answer and the error message is empty, on failure the list is unchanged and
\* the error message is 'Failed to load todos. Please try again.'; a success
\* after a failure leaves loading false and the error message empty.
C23_FetchTodosTracksLoading ==
    /\ ui.fetch = "pending" =>
          /\ listView.loading
          /\ listView.errorMessage = ""
    /\ ui.fetch = "sync" =>
          /\ ~listView.loading
          /\ listView.todos = todos
          /\ listView.errorMessage = ""
    /\ ui.ev = "listLoaded" =>
          /\ ~listView.loading
          /\ listView.todos = ui.data
          /\ listView.errorMessage = ""
    /\ ui.ev = "listFailed" =>
          /\ ~listView.loading
          /\ listView.todos = ui.preList.todos
          /\ listView.errorMessage = "Failed to load todos. Please try again."

C23_Witness ==
    /\ ui.ev = "listLoaded"
    /\ listView.failures > 0
    /\ Len(listView.todos) > 0
    /\ ~listView.loading
    /\ listView.errorMessage = ""

\* C24: deleteTodo(id) of the list: confirmed and answered true, the list has
\* no record with that id and its other records in their order (one fewer when
\* the id was shown once); declined, deleteTodo of the service is not called
\* and the service's cache, the list and the error message are as before.
C24_ListDeleteDropsRow ==
    /\ (ui.ev = "delete" /\ ui.confirm /\ ui.ret) =>
          LET before == ui.preList.todos
              shown == {i \in 1..Len(before) : before[i].id = ui.id}
          IN  /\ \A i \in 1..Len(listView.todos) : listView.todos[i].id # ui.id
              /\ listView.todos = SelectSeq(before, LAMBDA t : t.id # ui.id)
              /\ Cardinality(shown) = 1 => Len(listView.todos) = Len(before) - 1
    /\ (ui.ev = "delete" /\ ~ui.confirm) =>
          /\ ui.calls = <<>>
          /\ todos = ui.pre
          /\ listView = ui.preList

C24_Witness ==
    /\ ui.ev = "delete"
    /\ ui.confirm
    /\ ui.ret
    /\ Len(ui.preList.todos) = 2
    /\ ui.id = ui.preList.todos[2].id
    /\ listView.todos = <<ui.preList.todos[1]>>

\* C25: submit with a title that is empty or only whitespace sets 'Title is
\* required and cannot be empty.', with a title of trimmed length 1 or 2 sets
\* 'Title must be at least 3 characters long.'; in both cases neither addTodo
\* nor updateTodo is called, the cache is unchanged and the form stays shown.
C25_SubmitRejectsShortTitles ==
    (ui.ev = "submit" /\ Len(Trim(ui.todo.title)) < 3) =>
        /\ formView.errorMessage =
              IF Len(Trim(ui.todo.title)) = 0
              THEN "Title is required and cannot be empty."
              ELSE "Title must be at least 3 characters long."
        /\ ui.calls = <<>>
        /\ todos = ui.pre
        /\ ~ui.navigated
        /\ route = "form"

C25_Witness ==
    /\ ui.ev = "submit"
    /\ ui.todo.title = " ab "
    /\ formView.errorMessage = "Title must be at least 3 characters long."
    /\ route = "form"

\* C26: the form is in edit mode exactly when its route has an id (in create
\* mode getTodoById is not called); a submit that passes validation makes
\* exactly one call of the service, updateTodo in edit mode and addTodo in
\* create mode, and then the list is shown.
C26_ModeDecidesTheCall ==
    /\ route = "form" => (formView.isEditMode <=> formView.routeId # Undefined)
    /\ ui.ev = "openForm" =>
          ui.calls = IF ui.id # Undefined THEN <<"getTodoById">> ELSE <<>>
    /\ (ui.ev = "submit" /\ Len(Trim(ui.todo.title)) >= 3) =>
          /\ ui.calls = <<IF ui.id # Undefined THEN "updateTodo" ELSE "addTodo">>
          /\ Len(todos) = IF ui.id # Undefined THEN Len(ui.pre) ELSE Len(ui.pre) + 1
          /\ ui.navigated
          /\ route = "list"

C26_Witness ==
    /\ ui.ev = "submit"
    /\ ui.id # Undefined
    /\ ui.todo.id = ui.id
    /\ ui.calls = <<"updateTodo">>
    /\ route = "list"

\* C27: loadTodo(id) ends with loading false once getTodoById has answered:
\* found, the draft is a copy of the record (id, title, completed, userId) and
\* the error message is empty; not found, the draft is as it was and the error
\* message says that the todo with that id was not found.
C27_LoadTodoFillsDraft ==
    (ui.ev = "openForm" /\ ui.id # Undefined) =>
        LET held == {i \in 1..Len(todos) : todos[i].id = ui.id}
        IN  /\ ~formView.loading
            /\ held # {} =>
                  /\ formView.todo = todos[CHOOSE i \in held : \A j \in held : i <= j]
                  /\ formView.errorMessage = ""
            /\ held = {} =>
                  /\ formView.todo = NoForm.todo
                  /\ formView.errorMessage =
                        "Todo with ID " \o ToString(ui.id) \o " not found."

C27_Witness ==
    /\ ui.ev = "openForm"
    /\ ui.id = 2
    /\ formView.todo.id = 2
    /\ formView.todo.title # ""
    /\ formView.errorMessage = ""
    /\ ~formView.loading

\* C28: every record that the form passes to addTodo or updateTodo has a
\* title of trimmed length at least 3, and with remote records of non-empty
\* titles every cached record has a non-empty title.
C28_TitlesNonEmpty ==
    /\ (ui.ev = "submit" /\ ui.calls # <<>>) =>
          /\ ui.todo.title # ""
          /\ Len(Trim(ui.todo.title)) >= 3
    /\ \A i \in 1..Len(todos) : todos[i].title # ""

C28_Witness ==
    /\ ui.ev = "submit"
    /\ ui.calls = <<"addTodo">>
    /\ Len(todos) > 1
    /\ todos[1].title = "Milk"

\* C29: once isInitialized is true the cache changes only through addTodo,
\* updateTodo and deleteTodo: the answer of a read that arrives after
\* initialization leaves the cache as it was.
C29_NoInstallOnceInitialized ==
    (last.op = "fetchOk" /\ last.preInit) => todos = last.pre

\* C30: whenever the form has navigated to the list after a submit in edit
\* mode, the cache holds a record with the draft's title and completed.
C30_EditSubmitStoresDraft ==
    (ui.ev = "submit" /\ ui.id # Undefined /\ ui.navigated) =>
        \E i \in 1..Len(todos) :
            /\ todos[i].title = ui.todo.title
            /\ todos[i].completed = ui.todo.completed

C33_FlagMonotoneAndJustified ==
    /\ ~isInitialized
    /\ [][/\ isInitialized => isInitialized'
          /\ (~isInitialized /\ isInitialized') => last'.op = "fetchOk"]_vars

C33_Witness ==
    /\ last.op = "fetchFail"
    /\ last.preInit
    /\ isInitialized
    /\ installs = 1

\* C34: addTodo followed immediately by deleteTodo of the id it returned
\* leaves the cache as it was before the addTodo, and that deleteTodo answers
\* true.
C34_AddThenDeleteRestores ==
    [][(/\ last.op = "addTodo"
        /\ last'.op = "deleteTodo"
        /\ last'.argId = last.outTodo.id) =>
            /\ todos' = last.pre
            /\ last'.outBool]_vars

C34_Witness ==
    /\ last.op = "deleteTodo"
    /\ last.outBool
    /\ assigned # <<>>
    /\ last.argId = assigned[Len(assigned)]
    /\ Len(last.pre) >= 2
    /\ last.pre[1].id = last.argId
    /\ todos = Tail(last.pre)

C36_CompletedPartitions ==
    (pipe.called /\ pipe.items.present) =>
        LET done == Transform(pipe.items, Field("completed"), Bool(TRUE)).elems
            open == Transform(pipe.items, Field("completed"), Bool(FALSE)).elems
        IN  /\ Len(done) + Len(open) = Len(pipe.items.elems)
            /\ \A i \in 1..Len(done) : \A j \in 1..Len(open) : done[i] # open[j]
            /\ (pipe.field = Field("completed") /\ pipe.value = Bool(TRUE)) =>
                  pipe.result.elems = done
            /\ (pipe.field = Field("completed") /\ pipe.value = Bool(FALSE)) =>
                  pipe.result.elems = open
            /\ pipe.items = pipe.arg
            /\ Transform(pipe.result, pipe.field, pipe.value) = pipe.result

C36_Witness ==
    /\ pipe.called
    /\ pipe.items = Items(<<Todo(1, "Todo 1", FALSE, 1), Todo(2, "Todo 2", TRUE, 1),
                            Todo(3, "Todo 3", FALSE, 2)>>)
    /\ pipe.field = Field("completed")
    /\ pipe.value = Bool(TRUE)
    /\ pipe.result = Items(<<Todo(2, "Todo 2", TRUE, 1)>>)
    /\ Len(Transform(pipe.items, pipe.field, Bool(FALSE)).elems) = 2

====
